---- MODULE Spec2Model ----
(***************************************************************************)
(* LMCache local storage backends (lmcache/storage_backend/local_backend.py) *)
(* LMCLocalBackend (memory) and LMCLocalDiskBackend (disk): an OrderedDict  *)
(* catalog, an LRU evictor, a put queue drained by one worker thread, and   *)
(* a threading.Lock.  Caller threads and the worker interleave at the       *)
(* granularity of the statements of the source.                             *)
(***************************************************************************)
EXTENDS Integers, Sequences, FiniteSets, TLC

\* ---------------------------------------------------------------- bounds
\* sequential runs: keys and largest capacity
NumKeys == 4
MaxCapacity == 3
\* concurrent runs: keys, largest capacity, calls made, queued items
ConcNumKeys == 3
ConcMaxCapacity == 2
MaxCalls == 4
MaxQueue == 2
\* path derivation: longest key string
MaxKeyLen == 3
\* number of instance ids of the compactor registry
NumIds == 3

\* ------------------------------------------------------------ key strings
\* CacheEngineKey.to_string() yields a string; a key is modelled by that
\* string, a sequence of characters.  The first two differ only in "/" / "-".
KeyList ==
    << <<"a", "/", "b">>, <<"a", "-", "b">>, <<"c">>, <<"d">>, <<"e">>, <<"f">> >>

Keys == {KeyList[i] : i \in 1..NumKeys}

ConcKeys == {KeyList[i] : i \in 1..ConcNumKeys}

NoKey == <<>>
NoPath == <<>>

\* self.path (config.local_device) and the ".pt" extension
BasePath == <<"/", "t", "/">>

Extension == <<".pt">>

\* str.replace("/", "-")
Replace(s) == [i \in 1..Len(s) |-> IF s[i] = "/" THEN "-" ELSE s[i]]

\* LMCLocalDiskBackend._key_to_path
KeyToPath(key) == BasePath \o Replace(key) \o Extension

Paths == {KeyToPath(k) : k \in Keys}

\* ---------------------------------------------------------------- payloads
\* kv_chunk tensors: two unit-size contents and one larger than any capacity
Payloads == {"v1", "v2", "big"}

ConcPayloads == {"v1", "big"}

PayloadSize(v) == IF v = "big" THEN MaxCapacity + 1 ELSE 1

NoFile == "NoFile"
None == "None"

\* ------------------------------------------------------------- OrderedDict
\* self.dict: a sequence of [key, value] entries in insertion order
DictKeys(d) == [i \in 1..Len(d) |-> d[i].key]

KeySet(d) == {d[i].key : i \in 1..Len(d)}

\* key in self.dict
DictHas(d, key) == \E i \in 1..Len(d) : d[i].key = key

DictIndex(d, key) == CHOOSE i \in 1..Len(d) : d[i].key = key

\* self.dict[key]  (only evaluated when the key is present)
DictGet(d, key) == d[DictIndex(d, key)].value

\* mutant: the entries behind the removed one come to the front
RemoveAt_Rotate(d, i) == SubSeq(d, i + 1, Len(d)) \o SubSeq(d, 1, i - 1)

RemoveAt(d, i) == [j \in 1..(Len(d) - 1) |-> IF j < i THEN d[j] ELSE d[j + 1]]

\* mutant: pops the oldest entry (popitem(last=False)) whatever the key
DictPop_First(d, key) == Tail(d)

\* self.dict.pop(key)  (only evaluated when the key is present)
DictPop(d, key) == RemoveAt(d, DictIndex(d, key))

\* mutant: a present key keeps its old value (setdefault)
DictSet_KeepOld(d, key, value) ==
    IF DictHas(d, key) THEN d ELSE Append(d, [key |-> key, value |-> value])

\* mutant: assigning a present key also moves it to the most recent end
DictSet_MoveToEnd(d, key, value) ==
    Append(IF DictHas(d, key) THEN RemoveAt(d, DictIndex(d, key)) ELSE d,
           [key |-> key, value |-> value])

\* self.dict[key] = value: in place for a present key, appended otherwise
DictSet(d, key, value) ==
    IF DictHas(d, key)
    THEN [d EXCEPT ![DictIndex(d, key)] = [key |-> key, value |-> value]]
    ELSE Append(d, [key |-> key, value |-> value])

\* OrderedDict.move_to_end(key)
MoveToEnd(d, key) == Append(DictPop(d, key), d[DictIndex(d, key)])

Max(a, b) == IF a > b THEN a ELSE b

Min(a, b) == IF a < b THEN a ELSE b

\* ----------------------------------------------------------------- evictor
\* LRUEvictor.update_on_put(cache_dict, kv_obj): ILLEGAL when the payload
\* alone exceeds the capacity, else the oldest keys to evict to make room.
UpdateOnPut(d, cap, v) ==
    IF PayloadSize(v) > cap
    THEN [evict_keys |-> <<>>, put_status |-> "ILLEGAL"]
    ELSE LET n == Max(0, Min(Len(d), Len(d) + PayloadSize(v) - cap))
         IN  [evict_keys |-> SubSeq(DictKeys(d), 1, n), put_status |-> "LEGAL"]

\* LRUEvictor.update_on_get(key, cache_dict): move to the most-recent end,
\* a no-op for a key that is not present
UpdateOnGet(key, d) == IF DictHas(d, key) THEN MoveToEnd(d, key) ELSE d


\* ------------------------------------------------------------------- state
VARIABLES
    sched,        \* "concurrent" (callers and worker) or "sequential" (one caller)
    kind,         \* "mem" (LMCLocalBackend) or "disk" (LMCLocalDiskBackend)
    capacity,     \* the evictor's capacity
    dict,         \* self.dict
    files,        \* the "kv_chunk" field of the file at each path, or NoFile
    lock,         \* self.update_lock: Free or the thread that acquired it
    put_queue,    \* self.put_queue
    pc,           \* each thread's position
    op,           \* each thread's running call, or the call it just completed
    evict_keys,   \* local evict_keys still to remove
    path,         \* local path of LMCLocalDiskBackend.remove / get
    kv_chunk,     \* local kv_chunk of LMCLocalBackend.get
    ret,          \* the value the call just completed returned
    err,          \* the exception the call just completed raised, or "none"
    calls,        \* number of calls made so far (concurrent runs)
    order,        \* history: keys inserted and not removed, oldest insertion-or-get first
    recency,      \* history (sequential): the same keys, least recent put-or-get first
    trace,        \* history (sequential): the puts and gets so far, while they fit a scenario
    last,         \* history (sequential): the store-changing call just completed
    pre,          \* history (sequential): catalog and files when the running remove was called
    backlog,      \* history: the items submitted and not yet taken, oldest first
    closeCalled,  \* history: close() has been called
    in_keys,      \* inputs of the path derivation
    out_paths,    \* its outputs
    instances,    \* LMCacheCompactorBuilder._instances
    objects,      \* number of compactor objects constructed so far
    r_op,         \* the registry call just completed
    r_ret,        \* the value it returned
    r_err,        \* the exception it raised, or "none"
    first,        \* history: per id, the instance its first successful get_or_create returned
    failed        \* history: the ids for which a get_or_create raised

pvars == <<sched, kind, capacity, dict, files, lock, put_queue, pc, op,
           evict_keys, path, kv_chunk, ret, err, calls>>

hvars == <<order, recency, trace, last, pre, backlog, closeCalled>>

rvars == <<instances, objects, r_op, r_ret, r_err, first, failed>>

vars == <<pvars, hvars, in_keys, out_paths, rvars>>

Callers == {"c1", "c2"}

SeqCallers == {"c1"}

W == "w"

Threads == Callers \cup {W}

Free == "free"

NoOp == [name |-> "none", key |-> NoKey, val |-> None, early |-> FALSE]

NoLast == [name |-> "none", key |-> NoKey, val |-> None]

\* LocalBackendEndSignal()
EndSignal == [key |-> NoKey, val |-> "END", early |-> FALSE]

Broken == << [op |-> "broken", key |-> NoKey] >>

NoSnap == [dict |-> <<>>, files |-> <<>>]

Str(b) == IF b THEN "True" ELSE "False"

\* self.put_thread.is_alive()
IsAlive == pc[W] \notin {"w_exit", "w_dead"}

\* a thread that is inside no call
AtHome(t) == pc[t] \in {"idle", "w_wait", "w_exit", "w_dead"}

Home(t) == IF t = W THEN "w_wait" ELSE "idle"

Without(s, k) == SelectSeq(s, LAMBDA x : x # k)

Range(s) == {s[i] : i \in 1..Len(s)}

\* a history that only sequential runs keep
H(new, old) == IF sched = "sequential" THEN new ELSE old

TraceAdd(tr, name, k) ==
    IF tr = Broken THEN Broken
    ELSE IF name = "put" /\ \E i \in 1..Len(tr) : tr[i].op = "put" /\ tr[i].key = k
         THEN Broken
    ELSE IF name = "get" /\ \E i \in 1..Len(tr) : tr[i].op = "get"
         THEN Broken
    ELSE IF name \notin {"put", "get"} THEN Broken
    ELSE Append(tr, [op |-> name, key |-> k])

BackendInit ==
    /\ kind \in {"mem", "disk"}
    /\ dict = <<>>
    /\ files = [p \in Paths |-> NoFile]
    /\ lock = Free
    /\ put_queue = <<>>
    /\ pc = [t \in Threads |-> Home(t)]
    /\ op = [t \in Threads |-> NoOp]
    /\ evict_keys = [t \in Threads |-> <<>>]
    /\ path = [t \in Threads |-> NoPath]
    /\ kv_chunk = [t \in Threads |-> None]
    /\ ret = [t \in Threads |-> None]
    /\ err = [t \in Threads |-> "none"]
    /\ calls = 0
    /\ order = <<>>
    /\ recency = <<>>
    /\ trace = <<>>
    /\ last = NoLast
    /\ pre = NoSnap
    /\ backlog = <<>>
    /\ closeCalled = FALSE

NoDerivation == in_keys = <<>> /\ out_paths = <<>>

\* instance ids and compactor type names, "Other" standing for every
\* unsupported name
Ids == 1..NumIds

TypeNames == {"H2O", "Sink", "Other"}

\* an id that is not in _instances
Absent == [type |-> "absent", oid |-> 0]

\* the None that get returns, and the value of a call that raised
NoInstance == [type |-> "None", oid |-> 0]

NoCall == [name |-> "none", id |-> 0, type |-> "none"]

\* _instances = {} as the class is loaded
RegistryInit ==
    /\ instances = [i \in Ids |-> Absent]
    /\ objects = 0
    /\ r_op = NoCall
    /\ r_ret = NoInstance
    /\ r_err = "none"
    /\ first = [i \in Ids |-> Absent]
    /\ failed = {}

Init ==
    /\ sched = "concurrent"
    /\ capacity \in 1..ConcMaxCapacity
    /\ BackendInit
    /\ NoDerivation
    /\ RegistryInit

SeqInit ==
    /\ sched = "sequential"
    /\ capacity \in 1..MaxCapacity
    /\ BackendInit
    /\ NoDerivation
    /\ RegistryInit

\* ----------------------------------------------------------- step helpers
\* f with thread t's entry set to x; what a thread inside no call last
\* returned is forgotten once another thread takes a step
Fresh(f, t, x, dflt) ==
    [u \in Threads |-> IF u = t THEN x
                       ELSE IF pc[u] \in {"idle", "w_wait", "w_exit"} THEN dflt
                       ELSE f[u]]

\* thread t moves to position p; its call has returned r / raised e so far
Step(t, p, r, e) ==
    /\ pc' = [pc EXCEPT ![t] = p]
    /\ op' = Fresh(op, t, op[t], NoOp)
    /\ ret' = Fresh(ret, t, r, None)
    /\ err' = Fresh(err, t, e, "none")

Temps(t, ek, pa, kv) ==
    /\ evict_keys' = [evict_keys EXCEPT ![t] = ek]
    /\ path' = [path EXCEPT ![t] = pa]
    /\ kv_chunk' = [kv_chunk EXCEPT ![t] = kv]

\* the call of thread t returns r
Return(t, r) == Step(t, Home(t), r, "none") /\ Temps(t, <<>>, NoPath, None)

\* the call of thread t raises e: a caller sees the exception, the worker
\* thread ends
Raise(t, e) ==
    /\ Step(t, IF t = W THEN "w_dead" ELSE "idle", None, e)
    /\ Temps(t, <<>>, NoPath, None)

\* thread t moves on to position p inside its call
Goto(t, p) == Step(t, p, None, "none")

\* caller c starts the call o and is at position p after its first statement,
\* having returned r if p is "idle"
Call(c, o, p, r) ==
    /\ pc[c] = "idle"
    /\ calls < MaxCalls
    /\ calls' = IF sched = "concurrent" THEN calls + 1 ELSE calls
    /\ pc' = [pc EXCEPT ![c] = p]
    /\ op' = Fresh(op, c, o, NoOp)
    /\ ret' = Fresh(ret, c, r, None)
    /\ err' = Fresh(err, c, "none", "none")

CallOp(name, k, v) == [name |-> name, key |-> k, val |-> v, early |-> FALSE]

\* histories kept by a step of a call o that sets none of them itself
KeepLast(o) ==
    last' = H(IF o.name = "get" /\ o.key = last.key THEN last ELSE NoLast, last)

KeepPre(o) == pre' = H(IF o.name = "remove" THEN pre ELSE NoSnap, pre)

\* history of a successful get of key k / removal of key k
Touched(k) ==
    /\ order' = Append(Without(order, k), k)
    /\ recency' = H(Append(Without(recency, k), k), recency)

Removed(k) ==
    /\ order' = Without(order, k)
    /\ recency' = H(Without(recency, k), recency)

\* the key that the running remove(key) was called with
RemoveKey(t) == IF op[t].name = "remove" THEN op[t].key ELSE Head(evict_keys[t])


\* ---------------------------------------------------------------- contains
\* LMCLocalBackend.contains / LMCLocalDiskBackend.contains
Contains(c, k) ==
    /\ Call(c, CallOp("contains", k, None), "idle", Str(DictHas(dict, k)))
    /\ UNCHANGED <<sched, kind, capacity, dict, files, lock, put_queue,
                   evict_keys, path, kv_chunk>>
    /\ KeepLast(op'[c])
    /\ KeepPre(op'[c])
    /\ UNCHANGED <<order, recency, trace, backlog, closeCalled, in_keys, out_paths, rvars>>

\* --------------------------------------------------------------------- get
\* LMCLocalBackend.get: kv_chunk = self.dict.get(key, None); a miss returns
MemGet(c, k) ==
    /\ kind = "mem"
    /\ Call(c, CallOp("get", k, None),
            IF DictHas(dict, k) THEN "get_upd" ELSE "idle", None)
    /\ kv_chunk' = [kv_chunk EXCEPT ![c] = IF DictHas(dict, k)
                                           THEN DictGet(dict, k) ELSE None]
    /\ UNCHANGED <<sched, kind, capacity, dict, files, lock, put_queue,
                   evict_keys, path>>
    /\ KeepLast(op'[c])
    /\ KeepPre(op'[c])
    /\ UNCHANGED <<order, recency, trace, backlog, closeCalled, in_keys, out_paths, rvars>>

\* LMCLocalBackend.get: acquire, update_on_get, release, return kv_chunk
MemGetUpdate(c) ==
    /\ pc[c] = "get_upd"
    /\ lock = Free
    /\ dict' = UpdateOnGet(op[c].key, dict)
    /\ Return(c, kv_chunk[c])
    /\ UNCHANGED <<sched, kind, capacity, files, lock, put_queue, calls>>
    /\ IF DictHas(dict, op[c].key)
       THEN Touched(op[c].key)
       ELSE UNCHANGED <<order, recency>>
    /\ trace' = H(TraceAdd(trace, "get", op[c].key), trace)
    /\ KeepLast(op[c])
    /\ KeepPre(op[c])
    /\ UNCHANGED <<backlog, closeCalled, in_keys, out_paths, rvars>>

\* LMCLocalDiskBackend.get without its test of key not in self.dict
DiskGet_NoCheck(c, k) ==
    /\ kind = "disk"
    /\ Call(c, CallOp("get", k, None), "dget_path", None)
    /\ UNCHANGED <<sched, kind, capacity, dict, files, lock, put_queue,
                   evict_keys, path, kv_chunk>>
    /\ KeepLast(op'[c])
    /\ KeepPre(op'[c])
    /\ UNCHANGED <<order, recency, trace, backlog, closeCalled, in_keys, out_paths, rvars>>

\* LMCLocalDiskBackend.get: if key not in self.dict: return None
DiskGet(c, k) ==
    /\ kind = "disk"
    /\ Call(c, CallOp("get", k, None),
            IF DictHas(dict, k) THEN "dget_path" ELSE "idle", None)
    /\ UNCHANGED <<sched, kind, capacity, dict, files, lock, put_queue,
                   evict_keys, path, kv_chunk>>
    /\ KeepLast(op'[c])
    /\ KeepPre(op'[c])
    /\ UNCHANGED <<order, recency, trace, backlog, closeCalled, in_keys, out_paths, rvars>>

\* LMCLocalDiskBackend.get: path = self.dict[key]
DiskGetPath(c) ==
    /\ pc[c] = "dget_path"
    /\ IF DictHas(dict, op[c].key)
       THEN /\ Goto(c, "dget_upd")
            /\ Temps(c, <<>>, DictGet(dict, op[c].key), None)
            /\ UNCHANGED trace
       ELSE /\ Raise(c, "KeyError")
            /\ trace' = H(Broken, trace)
    /\ UNCHANGED <<sched, kind, capacity, dict, files, lock, put_queue, calls>>
    /\ KeepLast(op[c])
    /\ KeepPre(op[c])
    /\ UNCHANGED <<order, recency, backlog, closeCalled, in_keys, out_paths, rvars>>

\* LMCLocalDiskBackend.get: self.evictor.update_on_get(key, self.dict)
DiskGetUpdate(c) ==
    /\ pc[c] = "dget_upd"
    /\ dict' = UpdateOnGet(op[c].key, dict)
    /\ Goto(c, "dget_open")
    /\ UNCHANGED <<sched, kind, capacity, files, lock, put_queue,
                   evict_keys, path, kv_chunk, calls>>
    /\ IF DictHas(dict, op[c].key)
       THEN Touched(op[c].key)
       ELSE UNCHANGED <<order, recency>>
    /\ KeepLast(op[c])
    /\ KeepPre(op[c])
    /\ UNCHANGED <<trace, backlog, closeCalled, in_keys, out_paths, rvars>>

\* LMCLocalDiskBackend.get: safe_open(path) and f.get_tensor("kv_chunk")
DiskGetOpen(c) ==
    /\ pc[c] = "dget_open"
    /\ IF files[path[c]] # NoFile
       THEN /\ Return(c, files[path[c]])
            /\ trace' = H(TraceAdd(trace, "get", op[c].key), trace)
       ELSE /\ Raise(c, "FileNotFoundError")
            /\ trace' = H(Broken, trace)
    /\ UNCHANGED <<sched, kind, capacity, dict, files, lock, put_queue, calls>>
    /\ KeepLast(op[c])
    /\ KeepPre(op[c])
    /\ UNCHANGED <<order, recency, backlog, closeCalled, in_keys, out_paths, rvars>>

\* ------------------------------------------------------------------ remove
\* an external caller calls remove(key) for a key it found in the catalog
RemoveCall(c, k) ==
    /\ DictHas(dict, k)
    /\ Call(c, CallOp("remove", k, None),
            IF kind = "mem" THEN "rm_pop" ELSE "rm_lock", None)
    /\ UNCHANGED <<sched, kind, capacity, dict, files, lock, put_queue,
                   evict_keys, path, kv_chunk>>
    /\ pre' = H([dict |-> dict, files |-> files], pre)
    /\ last' = H(NoLast, last)
    /\ trace' = H(Broken, trace)
    /\ UNCHANGED <<order, recency, backlog, closeCalled, in_keys, out_paths, rvars>>

\* LMCLocalBackend.remove: self.dict.pop(key)
MemRemove(c) ==
    /\ pc[c] = "rm_pop"
    /\ IF DictHas(dict, op[c].key)
       THEN /\ dict' = DictPop(dict, op[c].key)
            /\ Return(c, None)
            /\ Removed(op[c].key)
            /\ last' = H([name |-> "remove", key |-> op[c].key, val |-> None], last)
       ELSE /\ Raise(c, "KeyError")
            /\ last' = H(NoLast, last)
            /\ UNCHANGED <<dict, order, recency>>
    /\ UNCHANGED <<sched, kind, capacity, files, lock, put_queue, calls>>
    /\ UNCHANGED <<trace, pre, backlog, closeCalled, in_keys, out_paths, rvars>>

\* LMCLocalDiskBackend.remove: acquire, path = self.dict[key],
\* self.dict.pop(key), release.  A KeyError leaves the lock acquired.
DiskRemoveLock(t) ==
    /\ pc[t] = "rm_lock"
    /\ lock = Free
    /\ IF DictHas(dict, RemoveKey(t))
       THEN /\ dict' = DictPop(dict, RemoveKey(t))
            /\ Goto(t, "rm_unlink")
            /\ Temps(t, evict_keys[t], DictGet(dict, RemoveKey(t)), None)
            /\ Removed(RemoveKey(t))
            /\ UNCHANGED <<lock, trace>>
       ELSE /\ Raise(t, "KeyError")
            /\ lock' = t
            /\ trace' = H(Broken, trace)
            /\ UNCHANGED <<dict, order, recency>>
    /\ UNCHANGED <<sched, kind, capacity, files, put_queue, calls>>
    /\ KeepLast(op[t])
    /\ KeepPre(op[t])
    /\ UNCHANGED <<backlog, closeCalled, in_keys, out_paths, rvars>>

\* mutant: the file is left in place
Unlink_Noop(f, p) == f

\* os.remove(path)  (only evaluated when the file exists)
Unlink(f, p) == [f EXCEPT ![p] = NoFile]

\* LMCLocalDiskBackend.remove: os.remove(path); then the caller of remove
\* goes on (the eviction loop of put_blocking, or the external caller)
DiskRemoveUnlink(t) ==
    /\ pc[t] = "rm_unlink"
    /\ IF files[path[t]] # NoFile
       THEN /\ files' = Unlink(files, path[t])
            /\ IF op[t].name = "remove"
               THEN /\ Return(t, None)
                    /\ last' = H([name |-> "remove", key |-> op[t].key, val |-> None],
                                 last)
               ELSE /\ Goto(t, IF Len(evict_keys[t]) > 1 THEN "rm_lock" ELSE "save")
                    /\ Temps(t, Tail(evict_keys[t]), NoPath, None)
                    /\ last' = H(NoLast, last)
            /\ UNCHANGED trace
       ELSE /\ Raise(t, "FileNotFoundError")
            /\ last' = H(IF op[t].name = "remove"
                         THEN [name |-> "remove", key |-> op[t].key, val |-> None]
                         ELSE NoLast, last)
            /\ trace' = H(Broken, trace)
            /\ UNCHANGED files
    /\ UNCHANGED <<sched, kind, capacity, dict, lock, put_queue, calls>>
    /\ KeepPre(op[t])
    /\ UNCHANGED <<order, recency, backlog, closeCalled, in_keys, out_paths, rvars>>


\* --------------------------------------------------------------------- put
\* mutant: the evicted keys are never removed
PutNext_NoEvict(t, r) ==
    IF r.put_status = "ILLEGAL" THEN Home(t)
    ELSE (IF kind = "mem" THEN "insert" ELSE "save")

\* mutant: the put goes on although update_on_put answered ILLEGAL
PutNext_NoAbort(t, r) ==
    IF r.evict_keys # <<>>
    THEN (IF kind = "mem" THEN "evict" ELSE "rm_lock")
    ELSE (IF kind = "mem" THEN "insert" ELSE "save")

\* where a put goes after update_on_put returned r: it returns on ILLEGAL,
\* else it evicts r.evict_keys, if any, and goes on to store the chunk
PutNext(t, r) ==
    IF r.put_status = "ILLEGAL" THEN Home(t)
    ELSE IF r.evict_keys # <<>>
         THEN (IF kind = "mem" THEN "evict" ELSE "rm_lock")
         ELSE (IF kind = "mem" THEN "insert" ELSE "save")

\* put(key, kv_chunk, blocking=True) -> put_blocking, both backends:
\* update_on_put without the lock, return if ILLEGAL
PutCall(c, k, v) ==
    /\ Call(c, CallOp("put_blocking", k, v),
            PutNext(c, UpdateOnPut(dict, capacity, v)), None)
    /\ evict_keys' = [evict_keys EXCEPT ![c] = UpdateOnPut(dict, capacity, v).evict_keys]
    /\ UNCHANGED <<sched, kind, capacity, dict, files, lock, put_queue, path, kv_chunk>>
    /\ KeepLast(op'[c])
    /\ KeepPre(op'[c])
    /\ UNCHANGED <<order, recency, trace, backlog, closeCalled, in_keys, out_paths, rvars>>

\* the worker's put of the item it took: LMCLocalBackend.put_nonblocking
\* (acquire, update_on_put, return if ILLEGAL: the lock stays acquired) or
\* LMCLocalDiskBackend.put_blocking (update_on_put without the lock)
WorkerAdmit ==
    /\ pc[W] = "admit"
    /\ kind = "mem" => lock = Free
    /\ lock' = IF kind = "mem" THEN W ELSE lock
    /\ LET r == UpdateOnPut(dict, capacity, op[W].val)
       IN  /\ Step(W, PutNext(W, r), None, "none")
           /\ Temps(W, r.evict_keys, NoPath, None)
    /\ UNCHANGED <<sched, kind, capacity, dict, files, put_queue, calls>>
    /\ UNCHANGED <<hvars, in_keys, out_paths, rvars>>

\* LMCLocalBackend.put_blocking / put_nonblocking: self.remove(evict_key)
MemEvict(t) ==
    /\ pc[t] = "evict"
    /\ IF DictHas(dict, Head(evict_keys[t]))
       THEN /\ dict' = DictPop(dict, Head(evict_keys[t]))
            /\ Goto(t, IF Len(evict_keys[t]) > 1 THEN "evict" ELSE "insert")
            /\ Temps(t, Tail(evict_keys[t]), NoPath, None)
            /\ Removed(Head(evict_keys[t]))
            /\ UNCHANGED trace
       ELSE /\ Raise(t, "KeyError")
            /\ trace' = H(Broken, trace)
            /\ UNCHANGED <<dict, order, recency>>
    /\ UNCHANGED <<sched, kind, capacity, files, lock, put_queue, calls>>
    /\ KeepLast(op[t])
    /\ KeepPre(op[t])
    /\ UNCHANGED <<backlog, closeCalled, in_keys, out_paths, rvars>>

\* what an insertion of op[t] leaves in the histories
Inserted(t) ==
    /\ order' = IF op[t].key \in Range(order) THEN order ELSE Append(order, op[t].key)
    /\ recency' = H(Append(Without(recency, op[t].key), op[t].key), recency)
    /\ trace' = H(TraceAdd(trace, "put", op[t].key), trace)
    /\ last' = H([name |-> "put", key |-> op[t].key, val |-> op[t].val], last)
    /\ pre' = H(NoSnap, pre)

\* LMCLocalBackend.put_blocking / put_nonblocking: self.dict[key] =
\* kv_chunk_local (and, in put_nonblocking, release)
MemInsert(t) ==
    /\ pc[t] = "insert"
    /\ dict' = DictSet(dict, op[t].key, op[t].val)
    /\ lock' = IF t = W THEN Free ELSE lock
    /\ Return(t, None)
    /\ UNCHANGED <<sched, kind, capacity, files, put_queue, calls>>
    /\ Inserted(t)
    /\ UNCHANGED <<backlog, closeCalled, in_keys, out_paths, rvars>>

\* mutant: nothing is written
SaveFile_Noop(f, p, v) == f

\* save_file({"kv_chunk": kv_chunk}, path)
SaveFile(f, p, v) == [f EXCEPT ![p] = v]

\* LMCLocalDiskBackend.put_blocking: save_file({"kv_chunk": kv_chunk}, path)
DiskSave(t) ==
    /\ pc[t] = "save"
    /\ files' = SaveFile(files, KeyToPath(op[t].key), op[t].val)
    /\ Goto(t, "dinsert")
    /\ UNCHANGED <<sched, kind, capacity, dict, lock, put_queue,
                   evict_keys, path, kv_chunk, calls>>
    /\ KeepLast(op[t])
    /\ KeepPre(op[t])
    /\ UNCHANGED <<order, recency, trace, backlog, closeCalled, in_keys, out_paths, rvars>>

\* LMCLocalDiskBackend.put_blocking: acquire, self.dict[key] = path, release
DiskInsert(t) ==
    /\ pc[t] = "dinsert"
    /\ lock = Free
    /\ dict' = DictSet(dict, op[t].key, KeyToPath(op[t].key))
    /\ Return(t, None)
    /\ UNCHANGED <<sched, kind, capacity, files, lock, put_queue, calls>>
    /\ Inserted(t)
    /\ UNCHANGED <<backlog, closeCalled, in_keys, out_paths, rvars>>

\* ------------------------------------------------------- queue and worker
\* put(key, kv_chunk, blocking=False): self.put_queue.put((key, kv_chunk))
PutQueued(c, k, v) ==
    /\ Len(put_queue) < MaxQueue
    /\ Call(c, CallOp("put_queued", k, v), "idle", None)
    /\ put_queue' = Append(put_queue, [key |-> k, val |-> v, early |-> ~closeCalled])
    /\ backlog' = Append(backlog, [key |-> k, val |-> v, early |-> ~closeCalled])
    /\ UNCHANGED <<sched, kind, capacity, dict, files, lock,
                   evict_keys, path, kv_chunk>>
    /\ UNCHANGED <<order, recency, trace, last, pre, closeCalled, in_keys, out_paths, rvars>>

\* mutant: the newest item is taken first
QueueGet_Last(q) == [item |-> q[Len(q)], rest |-> SubSeq(q, 1, Len(q) - 1)]

\* queue.Queue.get(): the oldest item and the rest
QueueGet(q) == [item |-> Head(q), rest |-> Tail(q)]

\* s without its first element equal to x
RemoveFirst(s, x) ==
    IF \E i \in 1..Len(s) : s[i] = x
    THEN RemoveAt(s, CHOOSE i \in 1..Len(s) : s[i] = x /\ \A j \in 1..(i - 1) : s[j] # x)
    ELSE s

\* put_worker: item = self.put_queue.get(); break on the end signal, else
\* key, value = item and the put of the item starts
WorkerGet ==
    /\ pc[W] = "w_wait"
    /\ put_queue # <<>>
    /\ put_queue' = QueueGet(put_queue).rest
    /\ LET item == QueueGet(put_queue).item
       IN  /\ pc' = [pc EXCEPT ![W] = IF item = EndSignal THEN "w_exit" ELSE "admit"]
           /\ op' = Fresh(op, W, IF item = EndSignal THEN NoOp
                                 ELSE [name |-> "put_worker", key |-> item.key,
                                       val |-> item.val, early |-> item.early], NoOp)
           /\ backlog' = RemoveFirst(backlog, item)
    /\ ret' = Fresh(ret, W, None, None)
    /\ err' = Fresh(err, W, "none", "none")
    /\ UNCHANGED <<sched, kind, capacity, dict, files, lock,
                   evict_keys, path, kv_chunk, calls>>
    /\ UNCHANGED <<order, recency, trace, last, pre, closeCalled, in_keys, out_paths, rvars>>

\* ------------------------------------------------------------------- close
\* close(): if self.put_thread is not None and self.put_thread.is_alive()
CloseCall(c) ==
    /\ Call(c, CallOp("close", NoKey, None),
            IF IsAlive THEN "close_put" ELSE "idle", None)
    /\ closeCalled' = TRUE
    /\ UNCHANGED <<sched, kind, capacity, dict, files, lock, put_queue,
                   evict_keys, path, kv_chunk>>
    /\ UNCHANGED <<order, recency, trace, last, pre, backlog, in_keys, out_paths, rvars>>

\* close(): self.put_queue.put(LocalBackendEndSignal())
ClosePut(c) ==
    /\ pc[c] = "close_put"
    /\ put_queue' = Append(put_queue, EndSignal)
    /\ Goto(c, "close_join")
    /\ UNCHANGED <<sched, kind, capacity, dict, files, lock,
                   evict_keys, path, kv_chunk, calls>>
    /\ UNCHANGED <<hvars, in_keys, out_paths, rvars>>

\* close(): self.put_thread.join() returns once the worker thread has ended
CloseJoin(c) ==
    /\ pc[c] = "close_join"
    /\ ~IsAlive
    /\ Return(c, None)
    /\ UNCHANGED <<sched, kind, capacity, dict, files, lock, put_queue, calls>>
    /\ UNCHANGED <<hvars, in_keys, out_paths, rvars>>

\* ----------------------------------------------------------- specification
\* callers and the worker interleave statement by statement
Next ==
    \/ \E c \in Callers, k \in ConcKeys : Contains(c, k)
    \/ \E c \in Callers, k \in ConcKeys : MemGet(c, k)
    \/ \E c \in Callers : MemGetUpdate(c)
    \/ \E c \in Callers, k \in ConcKeys : DiskGet(c, k)
    \/ \E c \in Callers : DiskGetPath(c)
    \/ \E c \in Callers : DiskGetUpdate(c)
    \/ \E c \in Callers : DiskGetOpen(c)
    \/ \E c \in Callers, k \in ConcKeys : RemoveCall(c, k)
    \/ \E c \in Callers : MemRemove(c)
    \/ \E t \in Threads : DiskRemoveLock(t)
    \/ \E t \in Threads : DiskRemoveUnlink(t)
    \/ \E c \in Callers, k \in ConcKeys, v \in ConcPayloads : PutCall(c, k, v)
    \/ WorkerAdmit
    \/ \E t \in Threads : MemEvict(t)
    \/ \E t \in Threads : MemInsert(t)
    \/ \E t \in Threads : DiskSave(t)
    \/ \E t \in Threads : DiskInsert(t)
    \/ \E c \in Callers, k \in ConcKeys, v \in ConcPayloads : PutQueued(c, k, v)
    \/ WorkerGet
    \/ \E c \in Callers : CloseCall(c)
    \/ \E c \in Callers : ClosePut(c)
    \/ \E c \in Callers : CloseJoin(c)

Spec == Init /\ [][Next]_vars

\* one caller whose blocking calls run one after the other
SeqNext ==
    \/ \E c \in SeqCallers, k \in Keys : Contains(c, k)
    \/ \E c \in SeqCallers, k \in Keys : MemGet(c, k)
    \/ \E c \in SeqCallers : MemGetUpdate(c)
    \/ \E c \in SeqCallers, k \in Keys : DiskGet(c, k)
    \/ \E c \in SeqCallers : DiskGetPath(c)
    \/ \E c \in SeqCallers : DiskGetUpdate(c)
    \/ \E c \in SeqCallers : DiskGetOpen(c)
    \/ \E c \in SeqCallers, k \in Keys : RemoveCall(c, k)
    \/ \E c \in SeqCallers : MemRemove(c)
    \/ \E c \in SeqCallers : DiskRemoveLock(c)
    \/ \E c \in SeqCallers : DiskRemoveUnlink(c)
    \/ \E c \in SeqCallers, k \in Keys, v \in Payloads : PutCall(c, k, v)
    \/ \E c \in SeqCallers : MemEvict(c)
    \/ \E c \in SeqCallers : MemInsert(c)
    \/ \E c \in SeqCallers : DiskSave(c)
    \/ \E c \in SeqCallers : DiskInsert(c)

SeqSpec == SeqInit /\ [][SeqNext]_vars


\* -------------------------------------------------------- path derivation
Alphabet == {"a", "/", "-"}

KeyStrings == UNION {[1..n -> Alphabet] : n \in 1..MaxKeyLen}

\* a disk backend and two key strings whose paths are to be derived
PathInit ==
    /\ sched = "sequential"
    /\ capacity = 1
    /\ BackendInit
    /\ kind = "disk"
    /\ in_keys \in KeyStrings \X KeyStrings
    /\ out_paths = <<>>
    /\ RegistryInit

\* path = self._key_to_path(key) for both keys
DerivePaths ==
    /\ out_paths = <<>>
    /\ in_keys # <<>>
    /\ out_paths' = <<KeyToPath(in_keys[1]), KeyToPath(in_keys[2])>>
    /\ UNCHANGED <<pvars, hvars, in_keys, rvars>>

PathNext == DerivePaths

PathSpec == PathInit /\ [][PathNext]_vars


\* ---------------------------------------------------------------- shutdown
\* one caller that submits queued puts and calls close(), and the worker
WorkerStep ==
    \/ WorkerGet
    \/ WorkerAdmit
    \/ MemEvict(W)
    \/ MemInsert(W)
    \/ DiskRemoveLock(W)
    \/ DiskRemoveUnlink(W)
    \/ DiskSave(W)
    \/ DiskInsert(W)

CloseStep(c) == ClosePut(c) \/ CloseJoin(c)

LiveNext ==
    \/ \E c \in SeqCallers, k \in ConcKeys, v \in ConcPayloads : PutQueued(c, k, v)
    \/ \E c \in SeqCallers : CloseCall(c)
    \/ \E c \in SeqCallers : CloseStep(c)
    \/ WorkerStep

\* a thread that can take a step is scheduled sooner or later
LiveFairness ==
    /\ WF_vars(WorkerStep)
    /\ \A c \in SeqCallers : WF_vars(CloseStep(c))

LiveSpec == Init /\ [][LiveNext]_vars /\ LiveFairness

\* ------------------------------------------------------ compactor registry
\* H2OCompactor() / SinkCompactor(): the n-th object constructed
NewCompactor(t, n) == [type |-> t, oid |-> n]

\* get_or_create that always builds and stores a new instance
GetOrCreateResult_Replace(inst, id, t, n) ==
    IF t \in {"H2O", "Sink"}
    THEN [instances |-> [inst EXCEPT ![id] = NewCompactor(t, n + 1)],
          ret |-> NewCompactor(t, n + 1), err |-> "none", objects |-> n + 1]
    ELSE [instances |-> inst, ret |-> NoInstance, err |-> "Exception", objects |-> n]

\* get_or_create that falls back to H2O for an unknown type name
GetOrCreateResult_Default(inst, id, t, n) ==
    IF inst[id] = Absent
    THEN [instances |-> [inst EXCEPT ![id] = NewCompactor("H2O", n + 1)],
          ret |-> NewCompactor("H2O", n + 1), err |-> "none", objects |-> n + 1]
    ELSE [instances |-> inst, ret |-> inst[id], err |-> "none", objects |-> n]

\* LMCacheCompactorBuilder.get_or_create(instance_id, compactor_type)
GetOrCreateResult(inst, id, t, n) ==
    IF inst[id] = Absent
    THEN IF t \in {"H2O", "Sink"}
         THEN [instances |-> [inst EXCEPT ![id] = NewCompactor(t, n + 1)],
               ret |-> NewCompactor(t, n + 1), err |-> "none", objects |-> n + 1]
         ELSE [instances |-> inst, ret |-> NoInstance, err |-> "Exception", objects |-> n]
    ELSE [instances |-> inst, ret |-> inst[id], err |-> "none", objects |-> n]

GetOrCreate(id, t) ==
    LET r == GetOrCreateResult(instances, id, t, objects) IN
    /\ instances' = r.instances
    /\ objects' = r.objects
    /\ r_op' = [name |-> "get_or_create", id |-> id, type |-> t]
    /\ r_ret' = r.ret
    /\ r_err' = r.err
    /\ first' = IF r.err = "none" /\ first[id] = Absent
                THEN [first EXCEPT ![id] = r.ret] ELSE first
    /\ failed' = IF r.err = "none" THEN failed ELSE failed \cup {id}
    /\ UNCHANGED <<pvars, hvars, in_keys, out_paths>>

\* LMCacheCompactorBuilder.get(instance_id): _instances.get(instance_id)
RegistryGet(id) ==
    /\ r_op' = [name |-> "get", id |-> id, type |-> "none"]
    /\ r_ret' = IF instances[id] = Absent THEN NoInstance ELSE instances[id]
    /\ r_err' = "none"
    /\ UNCHANGED <<instances, objects, first, failed>>
    /\ UNCHANGED <<pvars, hvars, in_keys, out_paths>>

RegNext ==
    \/ \E id \in Ids, t \in TypeNames : GetOrCreate(id, t)
    \/ \E id \in Ids : RegistryGet(id)

\* the registry as the class is loaded, beside a memory backend left alone
RegInit == SeqInit /\ kind = "mem" /\ capacity = 1

RegSpec == RegInit /\ [][RegNext]_vars

\* ------------------------------------------------------------------ claims
Idle(c) == pc[c] = "idle"

IsPut(o) == o.name \in {"put_blocking", "put_worker", "put_queued"}

\* C1: contains(k) returns true exactly when k has been inserted by a put
\* and has not been evicted or removed since (both backends, any interleaving).
C1_ContainsIffInCatalog ==
    \A c \in Callers :
        (Idle(c) /\ op[c].name = "contains")
            => ret[c] = Str(op[c].key \in Range(order))

\* contains answered True for the only key left in a catalog of capacity 1
\* after at least two earlier calls
C1_Witness ==
    \E c \in Callers :
        /\ Idle(c) /\ op[c].name = "contains" /\ ret[c] = "True"
        /\ capacity = 1 /\ Len(dict) = 1
        /\ calls >= 3

\* C2: a get(k) that directly follows an admitted blocking put(k, v) returns v
\* and raises nothing (memory: the stored chunk; disk: the "kv_chunk" field
\* of the file at k's path).
C2_PutThenGet ==
    \A c \in SeqCallers :
        (Idle(c) /\ op[c].name = "get" /\ last.name = "put" /\ last.key = op[c].key)
            => (ret[c] = last.val /\ err[c] = "none")

\* get returned v2 for a key put again (the scenario of distinct puts is broken)
C2_Witness ==
    \E c \in SeqCallers :
        /\ Idle(c) /\ op[c].name = "get" /\ last.name = "put" /\ last.key = op[c].key
        /\ ret[c] = "v2"
        /\ trace = Broken /\ order = <<op[c].key>> /\ capacity > 1

AllPuts(tr) == \A i \in 1..Len(tr) : tr[i].op = "put"

TraceKeys(tr) == [i \in 1..Len(tr) |-> tr[i].key]

\* C3: from the empty catalog, puts of capacity + 1 distinct keys k1..k(N+1)
\* with no get or remove in between leave the catalog <<k2, ..., k(N+1)>>.
C3_EvictsOldest ==
    \A c \in SeqCallers :
        (Idle(c) /\ trace # Broken /\ AllPuts(trace) /\ Len(trace) = capacity + 1)
            => DictKeys(dict) = Tail(TraceKeys(trace))

C3_Witness ==
    \E c \in SeqCallers :
        /\ Idle(c) /\ trace # Broken /\ AllPuts(trace) /\ Len(trace) = capacity + 1
        /\ capacity = MaxCapacity
        /\ Len(dict) = capacity

\* C4 (scenario): capacity 2, put(A), put(B), get(A), put(C) leaves <<A, C>>.
C4_Scenario ==
    \A c \in SeqCallers :
        ( /\ Idle(c) /\ capacity = 2 /\ trace # Broken /\ Len(trace) = 4
          /\ trace[1].op = "put" /\ trace[2].op = "put"
          /\ trace[3] = [op |-> "get", key |-> trace[1].key]
          /\ trace[4].op = "put" )
            => DictKeys(dict) = <<trace[1].key, trace[4].key>>

\* a put that is about to evict
Evicting(c) == pc[c] \in {"evict", "rm_lock"} /\ IsPut(op[c])

\* C4 as claimed: the key a put evicts is the least recently put-or-got key.
C4_EvictsLeastRecentlyPutOrGot ==
    \A c \in SeqCallers : Evicting(c) => Head(evict_keys[c]) = Head(recency)

\* C4 as amended: a get moves the key to the most recent end, and the key a
\* put evicts is the first key of the catalog order, where a key's position
\* is set by its insertion into the catalog and by each later get, and not
\* by a put of the key while it is present.
C4_EvictsOldestInsertedOrGot ==
    /\ C4_Scenario
    /\ \A c \in SeqCallers : Evicting(c) => Head(evict_keys[c]) = Head(order)
    /\ \A c \in SeqCallers :
           (Idle(c) /\ op[c].name = "get" /\ ret[c] # None)
               => dict[Len(dict)].key = op[c].key

C4_Witness ==
    \E c \in SeqCallers :
        /\ Idle(c) /\ capacity = 2 /\ trace # Broken /\ Len(trace) = 4
        /\ trace[3].op = "get"
        /\ trace[3].key = trace[1].key
        /\ trace[2].key \notin KeySet(dict)

\* a step of thread t
Acted(t) ==
    \/ pc'[t] # pc[t]
    \/ op'[t] # op[t]
    \/ evict_keys'[t] # evict_keys[t]

\* C5: no step of a put whose payload is rejected changes the catalog (keys,
\* values, order) or a file, or raises an error; the put returns at once.
C5_RejectedPutChangesNothing ==
    [][\A t \in Threads :
         (Acted(t) /\ IsPut(op'[t]) /\ PayloadSize(op'[t].val) > capacity)
             => /\ dict' = dict
                /\ files' = files
                /\ err'[t] = "none"
                /\ pc'[t] \in {Home(t), "admit"}]_vars

\* the worker has dropped a rejected item, the catalog holding an entry
C5_Witness ==
    /\ pc[W] = "w_wait" /\ op[W].name = "put_worker"
    /\ PayloadSize(op[W].val) > capacity
    /\ dict # <<>>


Item(o) == [key |-> o.key, val |-> o.val, early |-> o.early]

\* C6: the worker takes the queued puts in submission order: the item it
\* starts to apply is always the oldest item submitted and not yet taken,
\* whatever the callers do meanwhile (one item is applied after the other).
C6_WorkerAppliesFifo ==
    [][(pc[W] = "w_wait" /\ pc'[W] = "admit")
          => (backlog # <<>> /\ Item(op'[W]) = Head(backlog))]_vars

\* the worker has inserted an item while a later one waits in the queue and
\* a caller is inside a get of another key
C6_Witness ==
    /\ pc[W] = "w_wait" /\ op[W].name = "put_worker"
    /\ DictHas(dict, op[W].key)
    /\ put_queue # <<>> /\ Head(put_queue) # EndSignal
    /\ \E c \in Callers :
           op[c].name = "get" /\ ~Idle(c) /\ op[c].key # op[W].key

\* C7 (drain): once close() has been called and the worker thread has ended,
\* no item enqueued before the first close() call is left unapplied.
C7_CloseDrains ==
    (closeCalled /\ ~IsAlive)
        => /\ \A i \in 1..Len(put_queue) : ~put_queue[i].early
           /\ ~(pc[W] = "w_dead" /\ op[W].early)

\* C7 (second close): close() on a backend whose worker has ended enqueues
\* nothing, changes no catalog state and raises nothing.
C7_SecondCloseIsNoOp ==
    [][\A c \in Callers :
         (~IsAlive /\ Idle(c) /\ op'[c].name = "close" /\ calls' # calls)
             => /\ put_queue' = put_queue
                /\ dict' = dict
                /\ files' = files
                /\ Idle(c)' /\ err'[c] = "none"]_vars

\* C8: on the disk backend a remove(k) of a present key leaves the catalog
\* as it was without k, the files as they were without the file at k's stored
\* path, and a get(k) that follows returns not-found.
C8_RemoveDeletesEntryAndFile ==
    \A c \in SeqCallers :
        /\ (kind = "disk" /\ Idle(c) /\ op[c].name = "remove")
               => /\ dict = DictPop(pre.dict, op[c].key)
                  /\ ~DictHas(dict, op[c].key)
                  /\ files = [pre.files EXCEPT ![DictGet(pre.dict, op[c].key)] = NoFile]
        /\ (kind = "disk" /\ Idle(c) /\ op[c].name = "get"
              /\ last.name = "remove" /\ last.key = op[c].key)
               => (ret[c] = None /\ err[c] = "none")

\* a remove has deleted an entry and its file, another entry and file staying
C8_Witness ==
    \E c \in SeqCallers :
        /\ kind = "disk" /\ Idle(c) /\ op[c].name = "remove" /\ err[c] = "none"
        /\ pre.files[DictGet(pre.dict, op[c].key)] # NoFile
        /\ dict # <<>>
        /\ \E q \in Paths : files[q] # NoFile

\* C9: on the disk backend, whenever no call is in progress, every catalog
\* key has its file and every file belongs to a catalog key.
C9_CatalogMatchesFiles ==
    (kind = "disk" /\ \A t \in Threads : AtHome(t))
        => /\ \A k \in KeySet(dict) : files[DictGet(dict, k)] # NoFile
           /\ \A q \in Paths : files[q] # NoFile
                  => \E k \in KeySet(dict) : DictGet(dict, k) = q

\* C10: two distinct key strings have two distinct paths.
C10_PathsDistinct ==
    (out_paths # <<>> /\ in_keys[1] # in_keys[2]) => out_paths[1] # out_paths[2]

C12_UnsupportedTypeFails ==
    [][/\ (r_op'.name = "get_or_create" /\ r_op'.type \notin {"H2O", "Sink"}
             /\ instances[r_op'.id] = Absent)
           => (r_err' = "Exception" /\ r_ret' = NoInstance /\ instances' = instances)
       /\ (r_op'.name = "get" /\ r_op'.id \in failed /\ instances[r_op'.id] = Absent)
           => (r_ret' = NoInstance /\ r_err' = "none" /\ instances' = instances)
       /\ (r_op'.name = "get_or_create" /\ r_op'.type \in {"H2O", "Sink"}
             /\ r_op'.id \in failed /\ instances[r_op'.id] = Absent)
           => /\ r_err' = "none"
              /\ r_ret'.type = r_op'.type
              /\ \A j \in Ids : instances[j] # r_ret'
              /\ instances' = [instances EXCEPT ![r_op'.id] = r_ret']]_vars

\* an id whose get_or_create once raised now holds an instance made by the
\* call just completed, while another id was registered before
C12_Witness ==
    /\ r_op.name = "get_or_create" /\ r_op.id \in failed
    /\ r_err = "none" /\ instances[r_op.id] = r_ret
    /\ r_ret.oid = objects /\ objects >= 2

\* C13: a get(k) called while k is not in the catalog returns None at once,
\* raises nothing and leaves the catalog, its order and the files as they
\* were, on both backends.
C13_GetAbsentReturnsNone ==
    [][\A c \in SeqCallers :
         (pc[c] = "idle" /\ op'[c].name = "get" /\ ~DictHas(dict, op'[c].key))
             => /\ pc'[c] = "idle"
                /\ ret'[c] = None /\ err'[c] = "none"
                /\ dict' = dict /\ files' = files /\ lock' = lock]_vars

\* a get has missed a key that was put and evicted, two other keys staying
C13_Witness ==
    \E c \in SeqCallers :
        /\ Idle(c) /\ op[c].name = "get" /\ ret[c] = None /\ err[c] = "none"
        /\ ~DictHas(dict, op[c].key)
        /\ \E i \in 1..Len(trace) : trace[i].op = "put" /\ trace[i].key = op[c].key
        /\ Len(dict) >= 2

\* a thread that has taken the admission decision of a put and has not yet
\* finished its evictions and its insertion
InPutSequence(t) == IsPut(op[t]) /\ pc[t] \notin {Home(t), "admit", "w_dead"}

\* a thread between the catalog read and the recency update of a disk get
InRecencyUpdate(t) == op[t].name = "get" /\ pc[t] = "dget_upd"

InMutation(t) == InPutSequence(t) \/ InRecencyUpdate(t)

\* C14 (consequence): no two threads are inside an admit/evict/insert or
\* recency-update sequence of the same backend at the same time.
C14_OneMutatorAtATime ==
    \A t, u \in Threads : (t # u /\ InMutation(t)) => ~InMutation(u)

\* C14: a thread inside an admit/evict/insert or recency-update sequence
\* holds the backend's mutex for the whole of it, so that no two threads
\* are inside such a sequence at the same time.
C14_MutationsHoldLock ==
    /\ \A t \in Threads : InMutation(t) => lock = t
    /\ C14_OneMutatorAtATime

\* C15: the mutex is released on every exit path: whenever no thread is
\* inside a call the mutex is free.
C15_LockFreeWhenQuiescent ==
    (\A t \in Threads : AtHome(t)) => lock = Free

\* C16: under fair scheduling a close() that found the worker running
\* returns in the end, with the worker having consumed the End Signal and
\* exited and no item left in the queue.
C16_ShutdownTerminates ==
    \A c \in SeqCallers :
        (pc[c] = "close_put")
            ~> (pc[c] = "idle" /\ pc[W] = "w_exit" /\ put_queue = <<>>)

\* C16 (weaker): under fair scheduling a close() that found the worker
\* running returns in the end.
C16_CloseReturns ==
    \A c \in SeqCallers : (pc[c] = "close_put") ~> (pc[c] = "idle")

\* C17: the steps of an admitted disk put come in the order admission,
\* removal of each evicted key (entry, then file), write of the new file,
\* insertion: the admission changes neither catalog nor files; the file is
\* written only once no eviction is left; the key is inserted only with its
\* file written; and after the write no eviction follows.
C17_DiskPutOrder ==
    [][\A c \in SeqCallers :
         (kind = "disk" /\ op'[c].name = "put_blocking") =>
            /\ pc[c] = "idle"
                 => /\ dict' = dict /\ files' = files
                    /\ evict_keys'[c] = UpdateOnPut(dict, capacity, op'[c].val).evict_keys
                    /\ pc'[c] \in {"idle", "rm_lock", "save"}
                    /\ pc'[c] = "save" => evict_keys'[c] = <<>>
            /\ pc[c] = "rm_lock"
                 => /\ files' = files
                    /\ pc'[c] = "rm_unlink" => dict' = DictPop(dict, Head(evict_keys[c]))
                    /\ pc'[c] \in {"rm_unlink", "idle"}
            /\ pc[c] = "rm_unlink"
                 => /\ dict' = dict
                    /\ ~DictHas(dict, Head(evict_keys[c]))
                    /\ pc'[c] # "idle" => files' = [files EXCEPT ![path[c]] = NoFile]
                    /\ pc'[c] \in {"rm_lock", "save", "idle"}
                    /\ pc'[c] = "save" => evict_keys'[c] = <<>>
            /\ pc[c] = "save"
                 => /\ evict_keys[c] = <<>>
                    /\ dict' = dict
                    /\ files' = [files EXCEPT ![KeyToPath(op[c].key)] = op[c].val]
                    /\ pc'[c] = "dinsert"
            /\ pc[c] = "dinsert"
                 => /\ files[KeyToPath(op[c].key)] = op[c].val
                    /\ files' = files
                    /\ dict' = DictSet(dict, op[c].key, KeyToPath(op[c].key))
                    /\ pc'[c] = "idle"]_vars

\* a disk put has completed that evicted the oldest key, wrote its file and
\* inserted its key into a full catalog
C17_Witness ==
    \E c \in SeqCallers :
        /\ kind = "disk" /\ Idle(c) /\ op[c].name = "put_blocking"
        /\ last.name = "put" /\ last.key = op[c].key
        /\ trace # Broken /\ Len(trace) = capacity + 1
        /\ Len(dict) = capacity /\ capacity >= 2
        /\ ~DictHas(dict, trace[1].key)
        /\ files[KeyToPath(op[c].key)] = op[c].val

DictValues(d) == [k \in KeySet(d) |-> DictGet(d, k)]

\* thread t is at the statement of a remove(k) or of a put's eviction of k
\* that erases k's entry
Removing(t, k) ==
    /\ pc[t] \in {"rm_pop", "rm_lock", "evict"}
    /\ RemoveKey(t) = k
    /\ IF op[t].name = "remove" THEN TRUE ELSE IsPut(op[t])

\* thread t is at the inserting statement of an admitted put of k
Inserting(t, k) == IsPut(op[t]) /\ pc[t] \in {"insert", "dinsert"} /\ op[t].key = k

\* thread t is at the recency update of a get of k
Bumping(t, k) == op[t].name = "get" /\ pc[t] \in {"get_upd", "dget_upd"} /\ op[t].key = k

\* C18: every change of the catalog is one of: the entry of one key k
\* erased by a remove(k) or by an eviction of a put, the other entries and
\* their order kept; the entry of k inserted (at the end) or overwritten (in
\* place) by an admitted put of k; k moved to the end by a get of k, nothing
\* else changed. So get and contains never add or remove a key.
C18_CatalogLifecycle ==
    [][dict' # dict =>
         \/ \E k \in KeySet(dict) :
               /\ dict' = SelectSeq(dict, LAMBDA e : e.key # k)
               /\ \E t \in Threads : Removing(t, k)
         \/ \E k \in Keys \ KeySet(dict) :
               /\ \E x \in {dict'[Len(dict')]} : dict' = Append(dict, x) /\ x.key = k
               /\ \E t \in Threads : Inserting(t, k)
         \/ \E k \in KeySet(dict) :
               /\ DictKeys(dict') = DictKeys(dict)
               /\ \A j \in KeySet(dict) \ {k} : DictGet(dict', j) = DictGet(dict, j)
               /\ \E t \in Threads : Inserting(t, k)
         \/ \E k \in KeySet(dict) :
               /\ DictKeys(dict') = Append(Without(DictKeys(dict), k), k)
               /\ DictValues(dict') = DictValues(dict)
               /\ \E t \in Threads : Bumping(t, k)]_vars

\* a get has returned the payload of the key that is now last of a two-key
\* catalog while another caller is inside a remove
C18_Witness ==
    \E c, u \in Callers :
        /\ Idle(c) /\ op[c].name = "get" /\ ret[c] # None /\ err[c] = "none"
        /\ Len(dict) = 2 /\ dict[2].key = op[c].key
        /\ op[u].name = "remove" /\ ~Idle(u)

\* C19: whenever no put is in progress the catalog holds at most as many
\* entries as the evictor's capacity, under every interleaving of blocking
\* puts of several callers and worker-applied puts.
C19_CapacityBound ==
    (\A t \in Threads : ~(IsPut(op[t]) /\ ~AtHome(t))) => Len(dict) <= capacity

\* C20: a get never ends with an error, also when a remove or an eviction
\* of its key runs at the same time: it returns a payload or None.
C20_GetNeverRaises ==
    \A c \in Callers : (Idle(c) /\ op[c].name = "get") => err[c] = "none"

\* C20 on the memory backend alone
C20_MemGetNeverRaises ==
    \A c \in Callers :
        (kind = "mem" /\ Idle(c) /\ op[c].name = "get") => err[c] = "none"

====
